---- MODULE Spec2Model ----
(***************************************************************************)
(* Model of the DeepRead API PDF structure extractor                        *)
(* (deepread-api/services/parser.py, parse_pdf) and of the audit endpoint   *)
(* that calls it (deepread-api/main.py, audit_pdf).                         *)
(*                                                                          *)
(* A Python str is a sequence of one-character strings, so that len, in,   *)
(* upper, strip, + and f-string formatting are computed and not assumed.   *)
(***************************************************************************)
EXTENDS Integers, Sequences, FiniteSets, TLC

(***************************************************************************)
(* Bounds of the model.                                                     *)
(***************************************************************************)
\* largest document: its number of pages plus its number of blocks
MaxSize == 4

(***************************************************************************)
(* Python str operations.                                                   *)
(***************************************************************************)
\* str.strip() with no argument removes these (ASCII whitespace)
Whitespace == {" ", "\n", "\t"}

LowerLetters == <<"a", "b", "c", "d", "e", "f", "g", "h", "i", "j", "k", "l", "m", "n", "o", "p", "q", "r", "s", "t", "u", "v", "w", "x", "y", "z">>
UpperLetters == <<"A", "B", "C", "D", "E", "F", "G", "H", "I", "J", "K", "L", "M", "N", "O", "P", "Q", "R", "S", "T", "U", "V", "W", "X", "Y", "Z">>

UpperChar(c) ==
    IF \E i \in 1..26 : LowerLetters[i] = c
    THEN UpperLetters[CHOOSE i \in 1..26 : LowerLetters[i] = c]
    ELSE c

\* str.upper()
Upper(s) == [i \in 1..Len(s) |-> UpperChar(s[i])]

\* the `in` operator on two str: h occurs in s as a substring
Contains(s, h) ==
    \E i \in 1..(Len(s) - Len(h) + 1) : SubSeq(s, i, i + Len(h) - 1) = h

\* str.strip()
Strip(s) ==
    LET keep == {i \in 1..Len(s) : s[i] \notin Whitespace}
    IN  IF keep = {} THEN <<>>
        ELSE SubSeq(s, CHOOSE i \in keep : \A j \in keep : i <= j,
                       CHOOSE i \in keep : \A j \in keep : i >= j)

Digits == <<"0", "1", "2", "3", "4", "5", "6", "7", "8", "9">>

\* str(n) of a non-negative int, as the f-string formats it
RECURSIVE IntToStr(_)
IntToStr(n) ==
    IF n < 10 THEN <<Digits[n + 1]>>
    ELSE IntToStr(n \div 10) \o <<Digits[(n % 10) + 1]>>

\* os.path.basename
Basename(p) ==
    LET slashes == {i \in 1..Len(p) : p[i] = "/"}
    IN  IF slashes = {} THEN p
        ELSE SubSeq(p, (CHOOSE i \in slashes : \A j \in slashes : i >= j) + 1, Len(p))

\* os.path.splitext(name)[0] of a name holding no "/"
SplitextRoot(name) ==
    LET dots == {i \in 1..Len(name) : name[i] = "." /\ \E j \in 1..(i - 1) : name[j] # "."}
    IN  IF dots = {} THEN name
        ELSE SubSeq(name, 1, (CHOOSE i \in dots : \A j \in dots : i >= j) - 1)

\* os.path.join of a directory and a relative file name
PathJoin(dir, name) ==
    IF dir = <<>> \/ dir[Len(dir)] = "/" THEN dir \o name ELSE dir \o <<"/">> \o name

(***************************************************************************)
(* The decoder's output (PyMuPDF): the documents the parser is run on.      *)
(***************************************************************************)
Span(t, sz) == [text |-> t, size |-> sz]

\* a short block holding a heading keyword in mixed case, in a 16 pt font
HeadBlock == [type |-> 0, lines |-> << <<Span(<<"1", ".", " ", "I", "n", "t", "r", "o", "d", "u", "c", "t", "i", "o", "n">>, 16)>> >>]

\* one line of two spans of the same, largest font; the second ends in a space
TitleBlock == [type |-> 0, lines |-> << <<Span(<<"D", "e", "e", "p">>, 20), Span(<<"N", "e", "t", "s", " ">>, 20)>> >>]

\* a block of white space only, in a still larger font
BlankBlock == [type |-> 0, lines |-> << <<Span(<<" ">>, 24)>> >>]

\* two lines of body-size text holding a heading keyword
WrapBlock ==
    [type |-> 0,
     lines |-> << <<Span(<<"4", ".", " ", "R", "e", "s", "u", "l", "t", "s", " ", "a", "n", "d", " ", "D", "i", "s", "c", "u", "s", "s", "i", "o", "n">>, 10)>>,
                  <<Span(<<"o", "f", " ", "t", "h", "e", " ", "F", "o", "u", "r", " ", "E", "x", "p", "e", "r", "i", "m", "e", "n", "t", "s">>, 10)>> >>]

BlockCorpus == {HeadBlock, TitleBlock, BlankBlock, WrapBlock}

\* page.get_images(full=True), by the xref of each entry: no image, one image,
\* and an image that the page references twice around another one
ImageLists == { <<>>, <<9>>, <<7, 9, 7>> }

\* doc.extract_image(xref): the image bytes (named by the xref) and extension
ExtractImage(xref) ==
    [image |-> xref, ext |-> IF xref = 7 THEN <<"p", "n", "g">> ELSE <<"j", "p", "e", "g">>]

\* doc.metadata: a missing title or author is the empty str (falsy, as None is)
Metadata ==
    { [title |-> <<>>, author |-> <<>>],
      [title |-> <<"U", "n", "t", "i", "t", "l", "e", "d", " ", "D", "o", "c", "u", "m", "e", "n", "t">>, author |-> <<"A", "d", "a">>],
      [title |-> <<"D", "e", "e", "p", " ", "L", "e", "a", "r", "n", "i", "n", "g", " ", "S", "u", "r", "v", "e", "y">>, author |-> <<"A", "d", "a">>] }

SeqsUpTo(S, n) == UNION {[1..k -> S] : k \in 0..n}

\* the page sequences whose pages and blocks number at most n together
RECURSIVE PageSeqs(_)
PageSeqs(n) ==
    {<<>>} \cup
    (IF n = 0 THEN {}
     ELSE UNION { { <<[blocks |-> bs, images |-> im]>> \o rest :
                      rest \in PageSeqs(n - 1 - Len(bs)) } :
                  bs \in SeqsUpTo(BlockCorpus, n - 1), im \in ImageLists })

Documents ==
    { [metadata |-> m, pages |-> ps] :
        m \in Metadata, ps \in PageSeqs(MaxSize) }

\* main.py: UPLOAD_DIR, and the file id of the request
UploadDir == <<"u", "p", "l", "o", "a", "d", "s">>
RequestFileId == <<"d", "1">>

\* the arguments of a call of parse_pdf
FilePath == PathJoin(UploadDir, RequestFileId \o <<".", "p", "d", "f">>)
ImageOutputDir == <<"s", "t", "a", "t", "i", "c", "/", "i", "m", "g">>
ImageUrlPrefix == <<"/", "i", "m", "g">>

(***************************************************************************)
(* parse_pdf: the pure parts.                                               *)
(***************************************************************************)
UntitledDocument == <<"U", "n", "t", "i", "t", "l", "e", "d", " ", "D", "o", "c", "u", "m", "e", "n", "t">>
UnknownAuthor == <<"U", "n", "k", "n", "o", "w", "n", " ", "A", "u", "t", "h", "o", "r">>
Introduction == <<"I", "n", "t", "r", "o", "d", "u", "c", "t", "i", "o", "n">>

\* font size a page-1 span must exceed to be taken as the title
TitleThreshold == 15
\* length under which a block can be a heading
HeaderMaxLen == 50

CommonHeaders ==
    << <<"A", "B", "S", "T", "R", "A", "C", "T">>, <<"I", "N", "T", "R", "O", "D", "U", "C", "T", "I", "O", "N">>, <<"M", "E", "T", "H", "O", "D", "O", "L", "O", "G", "Y">>, <<"M", "E", "T", "H", "O", "D", "S">>,
       <<"R", "E", "S", "U", "L", "T", "S">>, <<"D", "I", "S", "C", "U", "S", "S", "I", "O", "N">>, <<"C", "O", "N", "C", "L", "U", "S", "I", "O", "N">>, <<"R", "E", "F", "E", "R", "E", "N", "C", "E", "S">> >>

\* file_id = os.path.splitext(os.path.basename(file_path))[0]
FileIdOf(path) == SplitextRoot(Basename(path))

RECURSIVE Flatten(_)
Flatten(ss) == IF ss = <<>> THEN <<>> ELSE Head(ss) \o Flatten(Tail(ss))

\* the spans of the blocks of a page that have "lines", in loop order
SpansOf(blocks) ==
    Flatten([i \in 1..Len(blocks) |->
                IF "lines" \in DOMAIN blocks[i] THEN Flatten(blocks[i].lines) ELSE <<>>])

\* the scan with a span of equal size replacing the text kept so far
ScanStepTiesOverwrite(acc, s) ==
    IF s.size >= acc.max_size
    THEN [max_size |-> s.size, best_text |-> s.text]
    ELSE acc

\* one iteration of the span loop on (max_size, best_text)
ScanStep(acc, s) ==
    IF s.size > acc.max_size
    THEN [max_size |-> s.size, best_text |-> s.text]
    ELSE IF s.size = acc.max_size
         THEN [acc EXCEPT !.best_text = @ \o <<" ">> \o s.text]
         ELSE acc

RECURSIVE ScanSpans(_, _)
ScanSpans(acc, spans) ==
    IF spans = <<>> THEN acc ELSE ScanSpans(ScanStep(acc, Head(spans)), Tail(spans))

\* `not title or title == "Untitled Document"`
NeedsFallback(meta_title) == meta_title = <<>> \/ meta_title = UntitledDocument

\* the local `title` after the heuristic, given page 1's blocks when consulted
TitleAfterHeuristic(meta_title, page1_blocks) ==
    IF NeedsFallback(meta_title)
    THEN LET r == ScanSpans([max_size |-> 0, best_text |-> <<>>], SpansOf(page1_blocks))
         IN  IF r.max_size > TitleThreshold THEN Strip(r.best_text) ELSE meta_title
    ELSE meta_title

\* `x or default`
OrDefault(x, default) == IF x # <<>> THEN x ELSE default

RECURSIVE LineText(_)
LineText(spans) ==
    IF spans = <<>> THEN <<"\n">>
    ELSE Head(spans).text \o <<" ">> \o LineText(Tail(spans))

\* block_text of a text block, as the two loops build it
BlockText(b) == Flatten([i \in 1..Len(b.lines) |-> LineText(b.lines[i])])

TextClean(b) == Strip(BlockText(b))

RECURSIVE AnyHeaderFrom(_, _)
AnyHeaderFrom(i, upper_text) ==
    IF i > Len(CommonHeaders) THEN FALSE
    ELSE IF Contains(upper_text, CommonHeaders[i]) THEN TRUE
    ELSE AnyHeaderFrom(i + 1, upper_text)

\* the test with a text of exactly the limit still counted as short
IsHeaderAtMost(t) == Len(t) <= HeaderMaxLen /\ AnyHeaderFrom(1, Upper(t))

\* is_header of a non-empty text_clean
IsHeader(t) == Len(t) < HeaderMaxLen /\ AnyHeaderFrom(1, Upper(t))

\* the name with pages numbered from one
ImageFilenameOneBased(fid, pi, ii, ext) ==
    fid \o <<"_", "p">> \o IntToStr(pi + 1) \o <<"_", "i">> \o IntToStr(ii) \o <<".">> \o ext

\* f"{file_id}_p{page_index}_i{img_index}.{image_ext}"
ImageFilename(fid, pi, ii, ext) ==
    fid \o <<"_", "p">> \o IntToStr(pi) \o <<"_", "i">> \o IntToStr(ii) \o <<".">> \o ext

\* f"{image_url_prefix}/{image_filename}"
ImageUrl(prefix, filename) == prefix \o <<"/">> \o filename

\* d[k] = v on a dict kept as its sequence of (key, value) in insertion order
DictSet(d, k, v) ==
    IF \E i \in 1..Len(d) : d[i][1] = k
    THEN [i \in 1..Len(d) |-> IF d[i][1] = k THEN <<k, v>> ELSE d[i]]
    ELSE Append(d, <<k, v>>)

DictValues(d) == [i \in 1..Len(d) |-> d[i][2]]

\* page_images and the paths written after the first n entries of image_list
RECURSIVE ExtractImages(_, _, _, _)
ExtractImages(fid, pi, image_list, n) ==
    IF n = 0 THEN [page_images |-> <<>>, written |-> {}]
    ELSE LET prev == ExtractImages(fid, pi, image_list, n - 1)
             xref == image_list[n]
             name == ImageFilename(fid, pi, n - 1, ExtractImage(xref).ext)
         IN  [page_images |-> DictSet(prev.page_images, xref, ImageUrl(ImageUrlPrefix, name)),
              written |-> prev.written \cup {PathJoin(ImageOutputDir, name)}]

TextItem(v) == [type |-> "text", value |-> v]
ImageItem(u) == [type |-> "image", src |-> u]

\* the push that assigns the list instead of appending to it
PushSectionReplaces(sections, section) == <<section>>

\* structure["sections"].append(current_section)
PushSection(sections, section) == Append(sections, section)

\* the cleanup left out
CleanupKeepsAll(sections) == sections

\* [s for s in structure["sections"] if s["content"]]
Cleanup(sections) == SelectSeq(sections, LAMBDA s : s.content # <<>>)

\* main.py calls parse_pdf(file_path); parse_pdf has three required parameters
ParsePdfParams == <<"file_path", "image_output_dir", "image_url_prefix">>
AuditCallArgs == <<"file_path">>

(***************************************************************************)
(* State.                                                                   *)
(***************************************************************************)
VARIABLES
    doc,              \* the decoder's view of the uploaded file
    pc,               \* where control is
    request,          \* who called: "none", "direct" (parse_pdf), "audit" (GET /audit)
    file_exists,      \* os.path.exists(file_path) as audit_pdf saw it
    outcome,          \* of parse_pdf: "none", "returned" or the exception raised
    response,         \* of audit_pdf: status 0 until it answers
    file_id,          \* parse_pdf locals
    structure,
    current_section,
    sections_found,
    page_index,
    page_images,
    blk_index,        \* blocks of the page already iterated by the text loop
    text_clean,
    is_header,
    files,            \* paths written under image_output_dir
    emitted           \* history: headings opened and content blocks appended, in order

vars == <<doc, pc, request, file_exists, outcome, response, file_id, structure,
          current_section, sections_found, page_index, page_images, blk_index,
          text_clean, is_header, files, emitted>>

\* `structure` before line 35 assigns it
Unassigned == [title |-> <<>>, author |-> <<>>, page_count |-> 0 - 1, sections |-> <<>>]

Init ==
    /\ doc \in Documents
    /\ pc = "idle"
    /\ request = "none"
    /\ file_exists = TRUE
    /\ outcome = "none"
    /\ response = [status |-> 0]
    /\ file_id = <<>>
    /\ structure = Unassigned
    /\ current_section = [title |-> <<>>, content |-> <<>>]
    /\ sections_found = <<>>
    /\ page_index = 0
    /\ page_images = <<>>
    /\ blk_index = 0
    /\ text_clean = <<>>
    /\ is_header = FALSE
    /\ files = {}
    /\ emitted = <<>>

NPages == Len(doc.pages)

\* the page the loop is on (page_index is zero-based)
Page == doc.pages[page_index + 1]

\* an exception leaves parse_pdf; audit_pdf's `except Exception` turns it into a 500
Raise(exc) ==
    /\ pc' = "done"
    /\ outcome' = exc
    /\ response' = IF request = "audit"
                   THEN [status |-> 500, detail |-> "Parsing error", cause |-> exc]
                   ELSE response

(***************************************************************************)
(* Callers.                                                                 *)
(***************************************************************************)
\* a caller that supplies the three arguments of the signature
DirectCall ==
    /\ pc = "idle"
    /\ pc' = "open"
    /\ request' = "direct"
    /\ UNCHANGED <<doc, file_exists, outcome, response, file_id, structure,
                   current_section, sections_found, page_index, page_images,
                   blk_index, text_clean, is_header, files, emitted>>

\* GET /audit/{file_id}
AuditPdf ==
    /\ pc = "idle"
    /\ request' = "audit"
    /\ \E ex \in BOOLEAN :
        /\ file_exists' = ex
        /\ IF ~ex
           THEN /\ response' = [status |-> 404, detail |-> "File not found"]
                /\ pc' = "done"
                /\ outcome' = outcome
           ELSE IF Len(AuditCallArgs) # Len(ParsePdfParams)
           THEN \* the call itself raises TypeError, inside the try
                /\ response' = [status |-> 500, detail |-> "Parsing error",
                                cause |-> "TypeError"]
                /\ pc' = "done"
                /\ outcome' = "TypeError"
           ELSE /\ pc' = "open"
                /\ UNCHANGED <<response, outcome>>
    /\ UNCHANGED <<doc, file_id, structure, current_section, sections_found,
                   page_index, page_images, blk_index, text_clean, is_header,
                   files, emitted>>

(***************************************************************************)
(* parse_pdf.                                                               *)
(***************************************************************************)
\* fitz.open(file_path), which fails on a file it cannot decode; file_id
Open ==
    /\ pc = "open"
    /\ \E decodable \in BOOLEAN :
        IF decodable
        THEN /\ file_id' = FileIdOf(FilePath)
             /\ pc' = "title"
             /\ UNCHANGED <<outcome, response>>
        ELSE /\ Raise("DecodeFailure")
             /\ UNCHANGED file_id
    /\ UNCHANGED <<doc, request, file_exists, structure, current_section,
                   sections_found, page_index, page_images, blk_index, text_clean,
                   is_header, files, emitted>>

\* metadata, the page-1 heuristic, structure, current_section, sections_found
ResolveTitle ==
    /\ pc = "title"
    /\ IF NeedsFallback(doc.metadata.title) /\ NPages = 0
       THEN \* doc[0] of a document without pages
            /\ Raise("IndexError")
            /\ UNCHANGED <<structure, current_section, sections_found>>
       ELSE /\ LET title == TitleAfterHeuristic(doc.metadata.title,
                               IF NPages = 0 THEN <<>> ELSE doc.pages[1].blocks)
               IN  structure' =
                     [title |-> OrDefault(title, UntitledDocument),
                      author |-> OrDefault(doc.metadata.author, UnknownAuthor),
                      page_count |-> NPages,
                      sections |-> <<>>]
            /\ current_section' = [title |-> Introduction, content |-> <<>>]
            /\ sections_found' = <<Introduction>>
            /\ pc' = "page"
            /\ UNCHANGED <<outcome, response>>
    /\ UNCHANGED <<doc, request, file_exists, file_id, page_index, page_images,
                   blk_index, text_clean, is_header, files, emitted>>

\* the head of the page loop and the image loop of the page: every image of
\* image_list is written and mapped, unless a write fails
BeginPage ==
    /\ pc = "page"
    /\ page_index < NPages
    /\ \E n \in 0..Len(Page.images) :
        LET r == ExtractImages(file_id, page_index, Page.images, n)
        IN  /\ files' = files \cup r.written
            /\ IF n = Len(Page.images)
               THEN /\ page_images' = r.page_images
                    /\ blk_index' = 0
                    /\ pc' = "blocks"
                    /\ UNCHANGED <<outcome, response>>
               ELSE \* open(image_path, "wb") fails on entry n + 1
                    /\ Raise("ImageWriteFailure")
                    /\ UNCHANGED <<page_images, blk_index>>
    /\ UNCHANGED <<doc, request, file_exists, file_id, structure, current_section,
                   sections_found, page_index, text_clean, is_header, emitted>>

\* one iteration of the text loop
ProcessBlock ==
    /\ pc = "blocks"
    /\ blk_index < Len(Page.blocks)
    /\ blk_index' = blk_index + 1
    /\ LET b == Page.blocks[blk_index + 1] IN
       IF b.type # 0
       THEN UNCHANGED <<text_clean, is_header, structure, current_section,
                        sections_found, emitted>>
       ELSE LET t == TextClean(b) IN
            /\ text_clean' = t
            /\ IF t = <<>>
               THEN UNCHANGED <<is_header, structure, current_section,
                                sections_found, emitted>>
               ELSE /\ is_header' = IsHeader(t)
                    /\ IF is_header'
                       THEN /\ structure' = [structure EXCEPT
                                               !.sections = PushSection(@, current_section)]
                            /\ current_section' = [title |-> t, content |-> <<>>]
                            /\ sections_found' = Append(sections_found, t)
                            /\ emitted' = Append(emitted, [kind |-> "heading", value |-> t])
                       ELSE /\ current_section' = [current_section EXCEPT
                                                     !.content = Append(@, TextItem(t))]
                            /\ emitted' = Append(emitted, [kind |-> "text", value |-> t])
                            /\ UNCHANGED <<structure, sections_found>>
    /\ UNCHANGED <<doc, pc, request, file_exists, outcome, response, file_id,
                   page_index, page_images, files>>

\* the images of the page go to the section open after its text
AppendImages ==
    /\ pc = "blocks"
    /\ blk_index = Len(Page.blocks)
    /\ LET urls == DictValues(page_images) IN
        /\ current_section' = [current_section EXCEPT
                                 !.content = @ \o [i \in 1..Len(urls) |-> ImageItem(urls[i])]]
        /\ emitted' = emitted \o [i \in 1..Len(urls) |-> [kind |-> "image", value |-> urls[i]]]
    /\ page_index' = page_index + 1
    /\ pc' = "page"
    /\ UNCHANGED <<doc, request, file_exists, outcome, response, file_id, structure,
                   sections_found, page_images, blk_index, text_clean, is_header, files>>

\* `if current_section["content"] or current_section["link"]`: the second
\* operand is evaluated when the content is empty, and the key may be missing
LastSectionTest(section) ==
    IF section.content # <<>> THEN "push"
    ELSE IF "link" \notin DOMAIN section THEN "KeyError"
    ELSE IF section.link # <<>> THEN "push" ELSE "skip"

\* after the last page: the last section, the cleanup and the return
Finish ==
    /\ pc = "page"
    /\ page_index = NPages
    /\ LET test == LastSectionTest(current_section) IN
       IF test = "KeyError"
       THEN /\ Raise("KeyError")
            /\ UNCHANGED structure
       ELSE /\ structure' =
                 [structure EXCEPT !.sections =
                    Cleanup(IF test = "push" THEN PushSection(@, current_section) ELSE @)]
            /\ pc' = "done"
            /\ outcome' = "returned"
            /\ response' =
                 IF request = "audit"
                 THEN [status |-> 200,
                       body |-> [id |-> RequestFileId,
                                 metadata |-> [title |-> structure'.title,
                                               author |-> structure'.author,
                                               pages |-> structure'.page_count],
                                 structure |-> structure']]
                 ELSE response
    /\ UNCHANGED <<doc, request, file_exists, file_id, current_section,
                   sections_found, page_index, page_images, blk_index, text_clean,
                   is_header, files, emitted>>

Next ==
    \/ DirectCall
    \/ AuditPdf
    \/ Open
    \/ ResolveTitle
    \/ BeginPage
    \/ ProcessBlock
    \/ AppendImages
    \/ Finish

Spec == Init /\ [][Next]_vars

(***************************************************************************)
(* Properties.                                                              *)
(***************************************************************************)
\* line 35 has assigned structure
Built == structure # Unassigned

Returned == outcome = "returned"

\* the content blocks held so far, in the sections pushed and the open one
AllContent ==
    Flatten([i \in 1..Len(structure.sections) |-> structure.sections[i].content])
        \o current_section.content

\* texts joined with one space between them
RECURSIVE JoinSpace(_)
JoinSpace(ts) ==
    IF ts = <<>> THEN <<>>
    ELSE IF Len(ts) = 1 THEN ts[1]
    ELSE ts[1] \o <<" ">> \o JoinSpace(Tail(ts))

\* C1: whenever parse_pdf ends on a decodable file whose images can be
\* written, it has returned a Document whose page_count is the number of
\* pages of the file, a file of blank pages only included.
C1_PageCountAlwaysReturned ==
    (pc = "done" /\ request = "direct"
        /\ outcome \notin {"DecodeFailure", "ImageWriteFailure"})
    => (Returned /\ structure.page_count = NPages)

\* C2: every section of a returned Document has at least one content block.
C2_NoEmptySection ==
    Returned => \A i \in 1..Len(structure.sections) :
                    structure.sections[i].content # <<>>

\* a Document was returned from a walk that pushed a section still empty: the
\* first block was a heading, or a heading followed a heading
C2_Witness ==
    /\ Returned
    /\ \E i \in 1..Len(emitted) :
          /\ emitted[i].kind = "heading"
          /\ (i = 1 \/ emitted[i - 1].kind = "heading")

C3_Keywords ==
    { <<"A", "B", "S", "T", "R", "A", "C", "T">>, <<"I", "N", "T", "R", "O", "D", "U", "C", "T", "I", "O", "N">>, <<"M", "E", "T", "H", "O", "D", "O", "L", "O", "G", "Y">>, <<"M", "E", "T", "H", "O", "D", "S">>,
      <<"R", "E", "S", "U", "L", "T", "S">>, <<"D", "I", "S", "C", "U", "S", "S", "I", "O", "N">>, <<"C", "O", "N", "C", "L", "U", "S", "I", "O", "N">>, <<"R", "E", "F", "E", "R", "E", "N", "C", "E", "S">> }

\* C3: a non-empty text block is a heading exactly when its text_clean is
\* shorter than 50 characters and its upper-cased form contains a keyword.
C3_HeadingIff ==
    text_clean # <<>> =>
        (is_header <=> (Len(text_clean) < 50
                        /\ \E k \in C3_Keywords : Contains(Upper(text_clean), k)))

\* a block of 50 characters or more that holds a keyword was classified, as body
C3_Witness ==
    /\ Len(text_clean) >= 50
    /\ \E k \in C3_Keywords : Contains(Upper(text_clean), k)
    /\ ~is_header

\* the name and URL the spec gives the image_index-th image of a page
NamedImage(p, i, ext) ==
    RequestFileId \o <<"_", "p">> \o IntToStr(p) \o <<"_", "i">> \o IntToStr(i) \o <<".">> \o ext

UrlOfNamed(p, i, ext) == ImageUrlPrefix \o <<"/">> \o NamedImage(p, i, ext)

\* C4: when the images of a page have been appended, the open section ends
\* with one Image block per entry of the page's image list, in list order.
C4_OneBlockPerImage ==
    (pc = "page" /\ page_index > 0) =>
        LET imgs == doc.pages[page_index].images
            n == Len(imgs)
            c == current_section.content
        IN  /\ Len(c) >= n
            /\ \A i \in 1..n :
                  c[Len(c) - n + i] =
                      ImageItem(UrlOfNamed(page_index - 1, i - 1, ExtractImage(imgs[i]).ext))

\* C5: every Image block carries the URL prefix/{file_id}_p{page}_i{index}.{ext}
\* of an entry of some page's image list, and that file was written.
C5_UrlsNameWrittenFiles ==
    \A k \in 1..Len(AllContent) :
        AllContent[k].type = "image" =>
            \E p \in 0..(NPages - 1) : \E i \in 0..(Len(doc.pages[p + 1].images) - 1) :
                LET ext == ExtractImage(doc.pages[p + 1].images[i + 1]).ext IN
                /\ AllContent[k].src = UrlOfNamed(p, i, ext)
                /\ (ImageOutputDir \o <<"/">> \o NamedImage(p, i, ext)) \in files

\* a returned Document holds an Image block of the second page
C5_Witness ==
    /\ Returned
    /\ \E k \in 1..Len(AllContent) :
          /\ AllContent[k].type = "image"
          /\ \E i \in 0..2 : AllContent[k].src = UrlOfNamed(1, i, <<"p", "n", "g">>)

\* the spans of page 1, the largest font size among them, and the texts of
\* the spans of that size
Page1Spans ==
    IF NPages = 0 THEN <<>>
    ELSE Flatten([i \in 1..Len(doc.pages[1].blocks) |->
                    Flatten(doc.pages[1].blocks[i].lines)])

Page1MaxSize ==
    IF Page1Spans = <<>> THEN 0
    ELSE LET sizes == {Page1Spans[i].size : i \in 1..Len(Page1Spans)}
         IN  CHOOSE m \in sizes : \A s \in sizes : s <= m

Page1LargestTexts ==
    LET largest == SelectSeq(Page1Spans, LAMBDA s : s.size = Page1MaxSize)
    IN  [i \in 1..Len(largest) |-> largest[i].text]

MetaTitleUsed ==
    doc.metadata.title # <<>> /\ doc.metadata.title # <<"U", "n", "t", "i", "t", "l", "e", "d", " ", "D", "o", "c", "u", "m", "e", "n", "t">>

\* C6 as stated: the fallback title is the largest-font texts of page 1
\* joined with single spaces, when that size exceeds 15.
C6_TitleAsStated ==
    Built =>
        structure.title =
            IF MetaTitleUsed THEN doc.metadata.title
            ELSE IF Page1MaxSize > 15 THEN JoinSpace(Page1LargestTexts)
            ELSE <<"U", "n", "t", "i", "t", "l", "e", "d", " ", "D", "o", "c", "u", "m", "e", "n", "t">>

\* C6 as amended: the joined text is stripped of leading and trailing white
\* space, and if nothing is left the title is "Untitled Document".
C6_TitleStripped ==
    Built =>
        structure.title =
            IF MetaTitleUsed THEN doc.metadata.title
            ELSE IF Page1MaxSize > 15 /\ Strip(JoinSpace(Page1LargestTexts)) # <<>>
                 THEN Strip(JoinSpace(Page1LargestTexts))
            ELSE <<"U", "n", "t", "i", "t", "l", "e", "d", " ", "D", "o", "c", "u", "m", "e", "n", "t">>

\* the title came from two page-1 spans of the largest size, and stripping
\* changed it
C6_Witness ==
    /\ Built
    /\ ~MetaTitleUsed
    /\ Page1MaxSize > 15
    /\ Len(Page1LargestTexts) >= 2
    /\ structure.title = Strip(JoinSpace(Page1LargestTexts))
    /\ structure.title # JoinSpace(Page1LargestTexts)

\* positions in `emitted` where a section opens: 0 for the implicit
\* Introduction, then every heading
SectionStarts ==
    <<0>> \o SelectSeq([i \in 1..Len(emitted) |-> i],
                       LAMBDA i : emitted[i].kind = "heading")

\* the section opened at the j-th start, with everything emitted up to the
\* next start
SectionAt(j) ==
    LET from == SectionStarts[j]
        to == IF j < Len(SectionStarts) THEN SectionStarts[j + 1] - 1 ELSE Len(emitted)
    IN  [title |-> IF j = 1 THEN <<"I", "n", "t", "r", "o", "d", "u", "c", "t", "i", "o", "n">> ELSE emitted[from].value,
         content |-> [k \in 1..(to - from) |->
                        IF emitted[from + k].kind = "text"
                        THEN [type |-> "text", value |-> emitted[from + k].value]
                        ELSE [type |-> "image", src |-> emitted[from + k].value]]]

SectionsOfEmitted == [j \in 1..Len(SectionStarts) |-> SectionAt(j)]

\* C7: the returned sections are, in order, the Introduction and one section
\* per heading, each with exactly what was emitted while it was open, less
\* the sections that received nothing; during the walk the sections pushed
\* and the open one are those sections, the empty ones included.
C7_SectionsAreTheEmittedSegments ==
    /\ Returned =>
         structure.sections = SelectSeq(SectionsOfEmitted, LAMBDA s : s.content # <<>>)
    /\ (Built /\ outcome = "none") =>
         Append(structure.sections, current_section) = SectionsOfEmitted

\* two sections were returned, after text and an image were emitted and a
\* section that stayed empty was dropped
C7_Witness ==
    /\ Returned
    /\ Len(structure.sections) >= 2
    /\ Len(SectionsOfEmitted) > Len(structure.sections)
    /\ \E i \in 1..Len(emitted) : emitted[i].kind = "image"
    /\ \E i \in 1..Len(emitted) : emitted[i].kind = "text"

\* C8: from the end of the document the walk returns: it pushes the open
\* section if it has content, pushes nothing otherwise, and does not raise.
C8_EndOfDocumentReturns ==
    [][(pc = "page" /\ page_index = NPages) =>
          /\ outcome' = "returned"
          /\ structure'.sections =
                SelectSeq(IF current_section.content # <<>>
                          THEN Append(structure.sections, current_section)
                          ELSE structure.sections,
                          LAMBDA s : s.content # <<>>)]_vars

\* the span texts of each line joined with one space, a newline after each
\* line, the whole stripped
JoinedLines(b) ==
    Strip(Flatten([i \in 1..Len(b.lines) |->
                     JoinSpace([k \in 1..Len(b.lines[i]) |-> b.lines[i][k].text])
                         \o <<"\n">>]))

\* C9: text_clean of a text block is its lines, each the span texts joined by
\* single spaces and followed by a newline, stripped.
C9_TextCleanIsJoinedLines ==
    (pc = "blocks" /\ blk_index > 0 /\ Page.blocks[blk_index].type = 0) =>
        text_clean = JoinedLines(Page.blocks[blk_index])

\* C10: an audit of a file that exists answers 200 with the Document, 500
\* only when decoding or an image write failed, and 404 only when the file
\* does not exist.
C10_AuditAnswers ==
    (request = "audit" /\ pc = "done") =>
        /\ (response.status = 404) <=> ~file_exists
        /\ response.status = 500 => outcome \in {"DecodeFailure", "ImageWriteFailure"}
        /\ response.status = 200 =>
              /\ response.body.id = RequestFileId
              /\ response.body.metadata = [title |-> structure.title,
                                           author |-> structure.author,
                                           pages |-> structure.page_count]
              /\ response.body.structure = structure

====
